---------------------------- MODULE Spec2Model ----------------------------
(***************************************************************************)
(* Habit-impact scoring engines of the health atlas.                       *)
(*                                                                         *)
(* The repository holds three variants of calculateExponentialHealth       *)
(*   - the tiered "realistic" engine      (HABIT_IMPACT_MATRIX),           *)
(*   - the "exponential" engine           (EXPONENTIAL_MULTIPLIERS),       *)
(*   - the "targeted" engine              (HABIT_EFFECTS),                 *)
(* the store function calculateMeters built on the engine, the store      *)
(* useAtlasStore with its setters, and an early store whose                *)
(* calculateMeters draws Math.random().                                    *)
(*                                                                         *)
(* Numbers.  The code computes in IEEE doubles.  The model computes in     *)
(* fixed point: a metric value v is the integer v * Unit (Unit = 10^4).    *)
(* Multipliers carry one decimal and are stored in tenths; Math.pow and    *)
(* Math.sqrt are tabulated in thousandths for the levels 1..3, so a        *)
(* product multiplier * pow is already in units of 1/Unit.                 *)
(*                                                                         *)
(* A selection (the JS object HabitLevels) is a sequence of entries        *)
(* [id, level] with pairwise distinct ids: Object.entries order is the     *)
(* insertion order.                                                        *)
(***************************************************************************)
EXTENDS Integers, Sequences, FiniteSets, TLC

VARIABLES
  habits,      \* the selection handed to the engines
  pc,          \* "input" until an engine has run, then the engine's name
  result,      \* value returned by the engine that ran (or NoResult)
  meters,      \* value of the store's calculateMeters(habits) (or NoResult)
  legacyHabits,\* early store: its selection, a sequence of [id, level]
  legacyPc,    \* early store: "idle", "once", "twice"
  legacyFirst, \* early store: value of the first calculateMeters call
  legacySecond,\* early store: value of the second calculateMeters call
  focusOrganId,\* store: the focused organ, or Undefined
  compareMode, \* store: 'off', 'before' or 'after'
  reduceMotion,\* store: accessibility.reduceMotion
  highContrast,\* store: accessibility.highContrast
  lastCall     \* store: the setter called last, with its arguments (history)

vars ==
  <<habits, pc, result, meters, legacyHabits, legacyPc, legacyFirst, legacySecond,
    focusOrganId, compareMode, reduceMotion, highContrast, lastCall>>

\* the fields of the store next to selectedHabits and meters
storeUi == <<focusOrganId, compareMode, reduceMotion, highContrast>>

Undefined == "undefined"

\* a call of a setter: level is the level stored, -1 when the call stored none
Call(op, habitId, valid, level) ==
  [op |-> op, habitId |-> habitId, valid |-> valid, level |-> level]

NoCall == Call("none", "", TRUE, 0 - 1)

\* the initial state of those fields
InitUi ==
  /\ lastCall = NoCall
  /\ focusOrganId = Undefined
  /\ compareMode = "off"
  /\ reduceMotion = FALSE
  /\ highContrast = FALSE

Unit == 10 * 1000

NoResult == [none |-> TRUE]

-----------------------------------------------------------------------------
(* Bounds of the model *)

\* largest number of entries of an arbitrary selection
MaxSel == 2

\* largest number of entries of a selection of the early store
MaxLegacySel == 2

\* setHabitLevel accepts the levels 0..3
MaxLevel == 3

Levels == 0..MaxLevel

-----------------------------------------------------------------------------
(* Generic helpers *)

RECURSIVE SumSeq(_)
SumSeq(s) == IF s = <<>> THEN 0 ELSE Head(s) + SumSeq(Tail(s))

Max(a, b) == IF a >= b THEN a ELSE b

Min(a, b) == IF a <= b THEN a ELSE b

Abs(x) == IF x < 0 THEN -x ELSE x

\* Math.max(lo, Math.min(hi, x)), bounds given in whole points
ClampNoop(lo, hi, x) == x

Clamp(lo, hi, x) == Max(lo * Unit, Min(hi * Unit, x))

\* Math.pow(level, curve) in thousandths; curve in tenths
Pow(level, curve) ==
  IF level = 0 THEN 0
  ELSE IF level = 1 THEN 1000
  ELSE IF level = 2 THEN
    CASE curve = 15 -> 2828 [] curve = 16 -> 3031 [] curve = 17 -> 3249
      [] curve = 18 -> 3482 [] curve = 19 -> 3732 [] curve = 20 -> 4000
      [] curve = 21 -> 4287 [] curve = 22 -> 4595 [] curve = 23 -> 4925
  ELSE
    CASE curve = 15 -> 5196 [] curve = 16 -> 5800 [] curve = 17 -> 6473
      [] curve = 18 -> 7225 [] curve = 19 -> 8064 [] curve = 20 -> 9000
      [] curve = 21 -> 10045 [] curve = 22 -> 11212 [] curve = 23 -> 12514

\* Math.sqrt(level) in thousandths
Sqrt(level) ==
  CASE level = 0 -> 0 [] level = 1 -> 1000 [] level = 2 -> 1414 [] level = 3 -> 1732

-----------------------------------------------------------------------------
(* Habit catalog (habitsData.habits): ids and kind ('good' / 'bad') *)

GoodHabits ==
  {"exercise", "sleep_consistency", "healthy_diet", "social_connection",
   "meditation", "hydration", "reading", "journaling"}

BadHabits ==
  {"smoking", "drugs", "alcohol", "chronic_stress", "sedentary",
   "processed_diet", "social_isolation", "pornography", "gaming"}

CatalogIds == GoodHabits \cup BadHabits

\* habitsData.habits.find(h => h.id === habitId): the entry, or undefined
habitsData ==
  [id \in CatalogIds |-> [id |-> id, name |-> id,
                          kind |-> IF id \in GoodHabits THEN "good" ELSE "bad"]]

\* an id that is in no table of the repository
UnknownIds == {"unknown_habit"}

HabitIds == CatalogIds \cup UnknownIds

-----------------------------------------------------------------------------
(* Selections *)

\* habits[habitId]?.level || 0
RECURSIVE LevelOf(_, _)
LevelOf(h, id) ==
  IF h = <<>> THEN 0
  ELSE IF Head(h).id = id THEN Head(h).level
  ELSE LevelOf(Tail(h), id)

HasKey(h, id) == \E i \in 1..Len(h) : h[i].id = id

\* a variant of SetEntry that leaves an existing key with its old level
SetEntryKeepFirst(h, id, level) ==
  IF HasKey(h, id) THEN h ELSE Append(h, [id |-> id, level |-> level])

\* { ...currentHabits, [habitId]: { level } }: an existing key keeps its place
SetEntry(h, id, level) ==
  IF HasKey(h, id)
  THEN [i \in 1..Len(h) |-> IF h[i].id = id THEN [id |-> id, level |-> level] ELSE h[i]]
  ELSE Append(h, [id |-> id, level |-> level])

\* the selection without its i-th entry
RemoveAt(h, i) == [j \in 1..(Len(h) - 1) |-> IF j < i THEN h[j] ELSE h[j + 1]]

-----------------------------------------------------------------------------
(* Tiered ("realistic") engine: impact model *)

Impact(metric, type, multiplier, curve) ==
  [metric |-> metric, type |-> type, multiplier |-> multiplier, curve |-> curve]

\* multipliers in tenths, curves in tenths (0: the descriptor has no curve)
HABIT_IMPACT_MATRIX ==
  [
  sleep_consistency |->
    << Impact("generalHealth", "exponential", 42, 20),
       Impact("mentalHealth", "exponential", 45, 21),
       Impact("qualityOfLife", "linear", 28, 0),
       Impact("physicalFitness", "minimal", 8, 0),
       Impact("happiness", "exponential", 38, 18),
       Impact("lifeExpectancy", "exponential", 35, 19) >>,
  exercise |->
    << Impact("generalHealth", "exponential", 40, 19),
       Impact("physicalFitness", "exponential", 50, 22),
       Impact("mentalHealth", "linear", 32, 0),
       Impact("qualityOfLife", "linear", 35, 0),
       Impact("happiness", "linear", 30, 0),
       Impact("lifeExpectancy", "exponential", 42, 20) >>,
  drugs |->
    << Impact("generalHealth", "exponential", -50, 23),
       Impact("happiness", "exponential", 25, 15),
       Impact("mentalHealth", "linear", -38, 0),
       Impact("physicalFitness", "minimal", -5, 0),
       Impact("qualityOfLife", "linear", -42, 0),
       Impact("lifeExpectancy", "exponential", -48, 21) >>,
  smoking |->
    << Impact("generalHealth", "exponential", -48, 22),
       Impact("physicalFitness", "exponential", -35, 18),
       Impact("mentalHealth", "linear", -22, 0),
       Impact("qualityOfLife", "linear", -30, 0),
       Impact("happiness", "linear", -18, 0),
       Impact("lifeExpectancy", "exponential", -52, 23) >>,
  alcohol |->
    << Impact("generalHealth", "exponential", -42, 20),
       Impact("mentalHealth", "linear", -28, 0),
       Impact("happiness", "linear", 12, 0),
       Impact("physicalFitness", "linear", -20, 0),
       Impact("qualityOfLife", "linear", -25, 0),
       Impact("lifeExpectancy", "exponential", -38, 19) >>,
  chronic_stress |->
    << Impact("generalHealth", "exponential", -45, 21),
       Impact("mentalHealth", "exponential", -50, 22),
       Impact("physicalFitness", "linear", -25, 0),
       Impact("qualityOfLife", "exponential", -40, 19),
       Impact("happiness", "exponential", -48, 20),
       Impact("lifeExpectancy", "exponential", -35, 18) >>,
  healthy_diet |->
    << Impact("generalHealth", "exponential", 38, 17),
       Impact("physicalFitness", "linear", 28, 0),
       Impact("mentalHealth", "linear", 22, 0),
       Impact("qualityOfLife", "linear", 30, 0),
       Impact("happiness", "linear", 20, 0),
       Impact("lifeExpectancy", "linear", 32, 0) >>,
  processed_diet |->
    << Impact("generalHealth", "exponential", -38, 19),
       Impact("physicalFitness", "linear", -25, 0),
       Impact("mentalHealth", "linear", -18, 0),
       Impact("qualityOfLife", "linear", -22, 0),
       Impact("happiness", "minimal", -5, 0),
       Impact("lifeExpectancy", "linear", -28, 0) >>,
  social_connection |->
    << Impact("mentalHealth", "exponential", 40, 19),
       Impact("happiness", "exponential", 42, 20),
       Impact("generalHealth", "linear", 25, 0),
       Impact("qualityOfLife", "exponential", 38, 18),
       Impact("physicalFitness", "minimal", 3, 0),
       Impact("lifeExpectancy", "linear", 30, 0) >>,
  social_isolation |->
    << Impact("mentalHealth", "exponential", -38, 19),
       Impact("happiness", "exponential", -40, 20),
       Impact("generalHealth", "linear", -20, 0),
       Impact("qualityOfLife", "exponential", -35, 18),
       Impact("physicalFitness", "minimal", -2, 0),
       Impact("lifeExpectancy", "linear", -22, 0) >>,
  sedentary |->
    << Impact("physicalFitness", "exponential", -40, 20),
       Impact("generalHealth", "exponential", -32, 18),
       Impact("mentalHealth", "linear", -20, 0),
       Impact("qualityOfLife", "linear", -25, 0),
       Impact("happiness", "linear", -18, 0),
       Impact("lifeExpectancy", "linear", -28, 0) >>,
  meditation |->
    << Impact("mentalHealth", "exponential", 35, 18),
       Impact("happiness", "linear", 30, 0),
       Impact("generalHealth", "linear", 20, 0),
       Impact("qualityOfLife", "linear", 28, 0),
       Impact("physicalFitness", "minimal", 5, 0),
       Impact("lifeExpectancy", "linear", 18, 0) >>,
  reading |->
    << Impact("mentalHealth", "linear", 22, 0),
       Impact("happiness", "linear", 18, 0),
       Impact("generalHealth", "minimal", 2, 0),
       Impact("qualityOfLife", "linear", 20, 0),
       Impact("physicalFitness", "minimal", 0, 0),
       Impact("lifeExpectancy", "minimal", 8, 0) >>,
  journaling |->
    << Impact("mentalHealth", "linear", 18, 0),
       Impact("happiness", "linear", 15, 0),
       Impact("generalHealth", "minimal", 1, 0),
       Impact("qualityOfLife", "linear", 16, 0),
       Impact("physicalFitness", "minimal", 0, 0),
       Impact("lifeExpectancy", "minimal", 3, 0) >>,
  hydration |->
    << Impact("generalHealth", "linear", 25, 0),
       Impact("physicalFitness", "linear", 20, 0),
       Impact("mentalHealth", "linear", 15, 0),
       Impact("qualityOfLife", "linear", 18, 0),
       Impact("happiness", "minimal", 8, 0),
       Impact("lifeExpectancy", "linear", 12, 0) >>,
  gaming |->
    << Impact("mentalHealth", "linear", -18, 0),
       Impact("physicalFitness", "linear", -15, 0),
       Impact("generalHealth", "linear", -12, 0),
       Impact("happiness", "linear", 10, 0),
       Impact("qualityOfLife", "linear", -15, 0),
       Impact("lifeExpectancy", "minimal", -5, 0) >>,
  pornography |->
    << Impact("mentalHealth", "linear", -25, 0),
       Impact("happiness", "linear", -18, 0),
       Impact("generalHealth", "minimal", -3, 0),
       Impact("qualityOfLife", "linear", -20, 0),
       Impact("physicalFitness", "minimal", 0, 0),
       Impact("lifeExpectancy", "minimal", -2, 0) >>
  ]

\* BASELINE_VALUES, in whole points
BASELINE_VALUES ==
  [generalHealth |-> 50, mentalHealth |-> 50, physicalFitness |-> 50,
   qualityOfLife |-> 50, happiness |-> 50, lifeExpectancy |-> 78]

Metrics == DOMAIN BASELINE_VALUES

OrganIds == <<"lungs", "heart", "brain", "liver", "kidneys", "gut", "skin">>

OrganSet == {OrganIds[i] : i \in 1..Len(OrganIds)}

\* the switch on impact.type
EffectValueLinearOnly(impact, level) == impact.multiplier * level * 1000

EffectValueDividing(impact, level) ==
  CASE impact.type = "exponential" -> impact.multiplier * Pow(level, impact.curve)
    [] impact.type = "linear"      -> impact.multiplier * level * 1000
    [] impact.type = "minimal"     -> (impact.multiplier * 1000 * 1000) \div Sqrt(level)
    [] OTHER                       -> 0

EffectValue(impact, level) ==
  CASE impact.type = "exponential" -> impact.multiplier * Pow(level, impact.curve)
    [] impact.type = "linear"      -> impact.multiplier * level * 1000
    [] impact.type = "minimal"     -> impact.multiplier * Sqrt(level)
    [] OTHER                       -> 0

\* the three early returns of the forEach body: level 0, no impacts, no catalog entry
IsProcessedNoGuard(entry) == entry.level # 0

IsProcessedAnyLevel(entry) ==
  /\ entry.id \in DOMAIN HABIT_IMPACT_MATRIX
  /\ entry.id \in DOMAIN habitsData

IsProcessed(entry) ==
  /\ entry.level # 0
  /\ entry.id \in DOMAIN HABIT_IMPACT_MATRIX
  /\ entry.id \in DOMAIN habitsData

\* HABIT_IMPACT_MATRIX[habitId]; <<>> stands for undefined
ImpactsOf(id) ==
  IF id \in DOMAIN HABIT_IMPACT_MATRIX THEN HABIT_IMPACT_MATRIX[id] ELSE <<>>

\* Object.entries(undefined) and undefined.name raise a TypeError: an entry that
\* passes the early returns without impacts or without a catalog entry
RealisticThrows(h) ==
  \E i \in 1..Len(h) :
     /\ IsProcessed(h[i])
     /\ \/ h[i].id \notin DOMAIN HABIT_IMPACT_MATRIX
        \/ h[i].id \notin DOMAIN habitsData

\* what one entry adds to results[metric]
EntryDelta(entry, metric) ==
  IF ~IsProcessed(entry) THEN 0
  ELSE LET imp == ImpactsOf(entry.id)
       IN SumSeq([k \in 1..Len(imp) |->
                    IF imp[k].metric = metric /\ metric \in Metrics
                    THEN EffectValue(imp[k], entry.level) ELSE 0])

\* results[metric] after the forEach over Object.entries(habits), before the bounds
RawMetricNoBaseline(h, metric) == SumSeq([i \in 1..Len(h) |-> EntryDelta(h[i], metric)])

RawMetric(h, metric) ==
  BASELINE_VALUES[metric] * Unit + SumSeq([i \in 1..Len(h) |-> EntryDelta(h[i], metric)])

\* "Ensure realistic bounds"
RECURSIVE FoldBounded(_, _, _)
FoldBounded(h, metric, acc) ==
  IF h = <<>> THEN acc
  ELSE FoldBounded(Tail(h), metric,
                   IF metric = "lifeExpectancy"
                   THEN Clamp(65, 95, acc + EntryDelta(Head(h), metric))
                   ELSE Clamp(10, 100, acc + EntryDelta(Head(h), metric)))

BoundedMetricPerHabit(h, metric) == FoldBounded(h, metric, BASELINE_VALUES[metric] * Unit)

BoundedMetric(h, metric) ==
  IF metric = "lifeExpectancy" THEN Clamp(65, 95, RawMetric(h, metric))
  ELSE Clamp(10, 100, RawMetric(h, metric))

\* hasExponentialEffect
HasExponentialEffect(id) ==
  \E k \in 1..Len(ImpactsOf(id)) :
     /\ ImpactsOf(id)[k].type = "exponential"
     /\ Abs(ImpactsOf(id)[k].multiplier) > 30

\* totalImpact: sum of |multiplier * pow| over the exponential descriptors
TotalImpactAllShapes(id, level) ==
  LET imp == ImpactsOf(id)
  IN SumSeq([k \in 1..Len(imp) |-> Abs(EffectValue(imp[k], level))])

TotalImpact(id, level) ==
  LET imp == ImpactsOf(id)
  IN SumSeq([k \in 1..Len(imp) |->
               IF imp[k].type = "exponential"
               THEN Abs(imp[k].multiplier * Pow(level, imp[k].curve)) ELSE 0])

\* generateRealisticExplanation: the template chosen and the level put in it
ExplainedHabits ==
  {"sleep_consistency", "exercise", "drugs", "smoking", "alcohol", "chronic_stress",
   "social_connection", "reading", "meditation", "healthy_diet"}

generateRealisticExplanation(id, level) ==
  [template |-> IF id \in ExplainedHabits THEN id ELSE "generic", level |-> level]

FactorData(entry) ==
  [habit |-> habitsData[entry.id].name,
   impact |-> TotalImpact(entry.id, entry.level),
   explanation |-> generateRealisticExplanation(entry.id, entry.level)]

IsFactor(entry) == IsProcessed(entry) /\ HasExponentialEffect(entry.id)

\* exponentialFactors.positive / .negative, in the order the entries are visited
FactorsOfKindAnyKind(h, kind) ==
  LET sel == SelectSeq(h, LAMBDA e : IsFactor(e))
  IN [i \in 1..Len(sel) |-> FactorData(sel[i])]

FactorsOfKind(h, kind) ==
  LET good(e) == IsFactor(e) /\ habitsData[e.id].kind = "good"
      bad(e)  == IsFactor(e) /\ habitsData[e.id].kind # "good"
      sel == IF kind = "good" THEN SelectSeq(h, good) ELSE SelectSeq(h, bad)
  IN [i \in 1..Len(sel) |-> FactorData(sel[i])]

\* results after "Ensure realistic bounds"
RealisticResults(h) == [m \in Metrics |-> BoundedMetric(h, m)]

\* "Calculate organ health using simplified approach": baseHealth = results.generalHealth
RealisticOrganBaseline(results) == BASELINE_VALUES["generalHealth"] * Unit

RealisticOrganBase(results) == results.generalHealth

RealisticOrganHealth(h, results, organId) ==
  LET base == RealisticOrganBase(results)
      mod ==
        CASE organId = "lungs" /\ LevelOf(h, "smoking") > 0  -> -(LevelOf(h, "smoking") * 15 * Unit)
          [] organId = "liver" /\ LevelOf(h, "alcohol") > 0  -> -(LevelOf(h, "alcohol") * 18 * Unit)
          [] organId = "brain" /\ LevelOf(h, "drugs") > 0    -> -(LevelOf(h, "drugs") * 20 * Unit)
          [] organId = "heart" /\ LevelOf(h, "exercise") > 0 -> LevelOf(h, "exercise") * 8 * Unit
          [] OTHER -> 0
  IN Clamp(15, 100, base + mod)

\* generateRealisticRecommendations: one entry per rule that fires, before the slice
Rec(priority, action, habit) == [priority |-> priority, action |-> action, habit |-> habit]

RealisticCriticalHabits == <<"chronic_stress", "drugs", "smoking">>

RealisticAllRecommendations(h) ==
  LET crit == SelectSeq(RealisticCriticalHabits, LAMBDA id : LevelOf(h, id) > 1)
  IN [i \in 1..Len(crit) |-> Rec("critical", "Immediately reduce", habitsData[crit[i]].name)]
     \o (IF LevelOf(h, "sleep_consistency") < 2
         THEN << Rec("high", "Prioritize consistent, quality sleep", "sleep_consistency") >>
         ELSE <<>>)
     \o (IF LevelOf(h, "exercise") < 2
         THEN << Rec("high", "Increase regular physical exercise", "exercise") >>
         ELSE <<>>)
     \o (IF LevelOf(h, "social_connection") < 2
         THEN << Rec("moderate", "Strengthen social connections", "social_connection") >>
         ELSE <<>>)
     \o (IF LevelOf(h, "healthy_diet") < 2
         THEN << Rec("moderate", "Improve dietary habits", "healthy_diet") >>
         ELSE <<>>)

\* recommendations.slice(0, 5)
SliceNone(s) == s

Slice5(s) == IF Len(s) <= 5 THEN s ELSE SubSeq(s, 1, 5)

generateRealisticRecommendations(h) == Slice5(RealisticAllRecommendations(h))

\* calculateExponentialHealth of the tiered engine
RealisticReturn(h, results) ==
  [overallHealth |-> results.generalHealth,
   organHealth |-> [o \in OrganSet |-> RealisticOrganHealth(h, results, o)],
   exponentialFactors |-> [positive |-> FactorsOfKind(h, "good"),
                           negative |-> FactorsOfKind(h, "bad")],
   riskAssessment |->
     [physicalHealth |-> results.physicalFitness,
      mentalHealth |-> results.mentalHealth,
      lifeExpectancy |-> results.lifeExpectancy,
      diseaseRisk |-> Clamp(5, 85, 100 * Unit - results.generalHealth)],
   prioritizedRecommendations |-> generateRealisticRecommendations(h)]

calculateRealisticHealth(h) ==
  IF RealisticThrows(h) THEN [threw |-> "TypeError"]
  ELSE RealisticReturn(h, RealisticResults(h))

\* The same function run against a catalog (habitsData.habits) that lacks the
\* entries of `missing`: find() returns undefined for them.
\* The entries the forEach body does not leave at "if (!habit) return"
CataloguedEntries(h, missing) == SelectSeq(h, LAMBDA e : e.id \notin missing)

\* generateRealisticRecommendations: habit?.name is undefined for a missing entry
RecommendationsWithout(all, missing) ==
  [i \in 1..Len(all) |->
     IF all[i].priority = "critical" /\ all[i].habit \in missing
     THEN Rec("critical", "Immediately reduce", Undefined)
     ELSE all[i]]

\* the value returned: the loop sees the catalogued entries only, the organ
\* modifiers and the recommendation rules read the selection itself
RealisticReturnWithout(h, seen, results, missing) ==
  [overallHealth |-> results.generalHealth,
   organHealth |-> [o \in OrganSet |-> RealisticOrganHealth(h, results, o)],
   exponentialFactors |-> [positive |-> FactorsOfKind(seen, "good"),
                           negative |-> FactorsOfKind(seen, "bad")],
   riskAssessment |->
     [physicalHealth |-> results.physicalFitness,
      mentalHealth |-> results.mentalHealth,
      lifeExpectancy |-> results.lifeExpectancy,
      diseaseRisk |-> Clamp(5, 85, 100 * Unit - results.generalHealth)],
   prioritizedRecommendations |->
     RecommendationsWithout(generateRealisticRecommendations(h), missing)]

ResultsWithout(h, seen, missing) ==
  RealisticReturnWithout(h, seen, RealisticResults(seen), missing)

calculateRealisticHealthWithout(h, missing) ==
  ResultsWithout(h, CataloguedEntries(h, missing), missing)

-----------------------------------------------------------------------------
(* Store: calculateMeters on top of the engine *)

\* x * num / den on fixed-point values
Scale(x, num, den) == (x * num) \div den

\* a variant of Stat without the bounds
StatUnbounded(x) == x

\* Math.max(0, Math.min(10, x)) of the stats
Stat(x) == Max(0, Min(10 * Unit, x))

\* sum of factor.impact over a factor list
ImpactSum(factors) == SumSeq([i \in 1..Len(factors) |-> factors[i].impact])

MeterStats(h, negativeImpact, positiveImpact) ==
  [cardioStrain |-> Stat(5 * Unit + Scale(negativeImpact, 15, 100) - Scale(positiveImpact, 10, 100)),
   inflammation |-> Stat(5 * Unit + Scale(negativeImpact, 12, 100) - Scale(positiveImpact, 8, 100)),
   sleepQuality |-> Stat(5 * Unit + Scale(LevelOf(h, "sleep_consistency") * Unit, 18, 10)
                                  - Scale(LevelOf(h, "chronic_stress") * Unit, 15, 10)),
   stressLoad |-> Stat(5 * Unit + Scale(LevelOf(h, "chronic_stress") * Unit, 22, 10)
                                - Scale(LevelOf(h, "meditation") * Unit, 12, 10)),
   recoveryCapacity |-> Stat(5 * Unit + Scale(positiveImpact, 10, 100) - Scale(negativeImpact, 8, 100)),
   cognitiveFunction |-> Stat(5 * Unit + Scale(positiveImpact, 12, 100) - Scale(negativeImpact, 15, 100)),
   immuneSystem |-> Stat(5 * Unit + Scale(positiveImpact, 10, 100) - Scale(negativeImpact, 12, 100)),
   metabolicHealth |-> Stat(5 * Unit + Scale(positiveImpact, 11, 100) - Scale(negativeImpact, 14, 100))]

\* a variant of Happiness that reads the overall health
HappinessFromHealth(exponentialResult) == exponentialResult.overallHealth

\* const happiness = exponentialResult.riskAssessment.mentalHealth
Happiness(exponentialResult) == exponentialResult.riskAssessment.mentalHealth

\* the Meters built from the engine's result; health = overallHealth, and happiness,
\* like mentalHealth, = riskAssessment.mentalHealth
MetersOf(h, exponentialResult) ==
  IF "threw" \in DOMAIN exponentialResult THEN exponentialResult
  ELSE
  [health |-> exponentialResult.overallHealth,
   happiness |-> Happiness(exponentialResult),
   qualityOfLife |-> Clamp(0, 100, (exponentialResult.overallHealth
                                    + Happiness(exponentialResult)
                                    + exponentialResult.riskAssessment.mentalHealth) \div 3),
   mentalHealth |-> exponentialResult.riskAssessment.mentalHealth,
   lifeExpectancy |-> exponentialResult.riskAssessment.lifeExpectancy,
   diseaseRisk |-> exponentialResult.riskAssessment.diseaseRisk,
   physicalFitness |-> exponentialResult.riskAssessment.physicalHealth,
   overallWellness |-> Clamp(0, 100, (exponentialResult.overallHealth
                                      + Happiness(exponentialResult)
                                      + exponentialResult.riskAssessment.physicalHealth) \div 3),
   stats |-> MeterStats(h, ImpactSum(exponentialResult.exponentialFactors.negative),
                           ImpactSum(exponentialResult.exponentialFactors.positive)),
   exponentialFactors |-> exponentialResult.exponentialFactors,
   organHealth |-> exponentialResult.organHealth,
   prioritizedRecommendations |-> exponentialResult.prioritizedRecommendations]

calculateMeters(h) == MetersOf(h, calculateRealisticHealth(h))

-----------------------------------------------------------------------------
(* "Exponential" engine *)

\* multipliers in tenths
EXPONENTIAL_MULTIPLIERS ==
  [chronic_stress |-> -35,
   drugs |-> -40,
   alcohol |-> -32,
   smoking |-> -38,
   processed_diet |-> -28,
   exercise |-> 35,
   social_connection |-> 28,
   healthy_diet |-> 30,
   sleep_consistency |-> 38,
   hydration |-> 22,
   sedentary |-> -15,
   social_isolation |-> -18,
   pornography |-> -14,
   gaming |-> -12,
   meditation |-> 18,
   reading |-> 13,
   journaling |-> 11]

\* vulnerability factors in tenths
ORGAN_VULNERABILITIES ==
  [lungs |-> [smoking |-> 45, exercise |-> -28, chronic_stress |-> 18],
   liver |-> [alcohol |-> 50, processed_diet |-> 25, healthy_diet |-> -32],
   heart |-> [smoking |-> 38, exercise |-> -40, chronic_stress |-> 32, social_connection |-> -25],
   brain |-> [drugs |-> 48, alcohol |-> 35, exercise |-> -38, sleep_consistency |-> -42, chronic_stress |-> 38],
   kidneys |-> [drugs |-> 40, hydration |-> -35, chronic_stress |-> 22],
   gut |-> [processed_diet |-> 38, healthy_diet |-> -35, chronic_stress |-> 28],
   skin |-> [smoking |-> 32, hydration |-> -28, chronic_stress |-> 25]]

\* BASELINE_ORGAN_HEALTH, in whole points
BASELINE_ORGAN_HEALTH ==
  [lungs |-> 82, heart |-> 78, brain |-> 85, liver |-> 80, kidneys |-> 85,
   gut |-> 75, skin |-> 80]

\* EXPONENTIAL_MULTIPLIERS[habitId] || 0
MultiplierOf(id) ==
  IF id \in DOMAIN EXPONENTIAL_MULTIPLIERS THEN EXPONENTIAL_MULTIPLIERS[id] ELSE 0

\* the early returns of the first forEach: level 0, no multiplier, no catalog entry
ExpIsProcessed(entry) ==
  /\ entry.level # 0
  /\ MultiplierOf(entry.id) # 0
  /\ entry.id \in DOMAIN habitsData

\* impact = multiplier * Math.pow(level, 1.8)
ExpImpact(entry) == MultiplierOf(entry.id) * Pow(entry.level, 18)

\* getExponentialExplanation: the template chosen and the level put in it
ExpExplainedHabits ==
  {"chronic_stress", "drugs", "alcohol", "smoking", "processed_diet", "exercise",
   "social_connection", "healthy_diet", "sleep_consistency", "hydration"}

getExponentialExplanation(id, level) ==
  [template |-> IF id \in ExpExplainedHabits THEN id ELSE "generic", level |-> level]

ExpFactorData(entry) ==
  [habit |-> habitsData[entry.id].name,
   impact |-> Abs(ExpImpact(entry)),
   explanation |-> getExponentialExplanation(entry.id, entry.level)]

\* exponentialFactors.positive (impact > 0) / .negative, in visiting order
ExpFactors(h, positive) ==
  LET pos(e) == ExpIsProcessed(e) /\ ExpImpact(e) > 0
      neg(e) == ExpIsProcessed(e) /\ ~(ExpImpact(e) > 0)
      sel == IF positive THEN SelectSeq(h, pos) ELSE SelectSeq(h, neg)
  IN [i \in 1..Len(sel) |-> ExpFactorData(sel[i])]

ExpTotalHealthImpact(h) ==
  SumSeq([i \in 1..Len(h) |-> IF ExpIsProcessed(h[i]) THEN ExpImpact(h[i]) ELSE 0])

\* vulnerabilities[habitId], 0 for undefined
VulnerabilityOf(organId, id) ==
  IF organId \in DOMAIN ORGAN_VULNERABILITIES /\ id \in DOMAIN ORGAN_VULNERABILITIES[organId]
  THEN ORGAN_VULNERABILITIES[organId][id] ELSE 0

\* organImpact = vulnerability * Math.pow(level, 1.6) * 3, for one entry
ExpOrganImpact(organId, entry) ==
  IF entry.level = 0 \/ VulnerabilityOf(organId, entry.id) = 0 THEN 0
  ELSE VulnerabilityOf(organId, entry.id) * Pow(entry.level, 16) * 3

\* "Calculate organ-specific health"
ExpOrganHealth(h, organId) ==
  Clamp(15, 100, BASELINE_ORGAN_HEALTH[organId] * Unit
                 - SumSeq([i \in 1..Len(h) |-> ExpOrganImpact(organId, h[i])]))

ExpOverallHealth(h) == Clamp(10, 100, 50 * Unit + Scale(ExpTotalHealthImpact(h), 25, 10))

\* sum of multiplier * Math.pow(level, 1.8) over a fixed habit list
ExpListImpact(h, ids) ==
  SumSeq([k \in 1..Len(ids) |-> MultiplierOf(ids[k]) * Pow(LevelOf(h, ids[k]), 18)])

PhysicalHabits ==
  <<"exercise", "healthy_diet", "sleep_consistency", "hydration", "smoking", "alcohol",
    "drugs", "processed_diet">>

MentalHabits ==
  <<"social_connection", "meditation", "chronic_stress", "social_isolation",
    "sleep_consistency">>

calculateRiskAssessment(h, overallHealth, exponentialFactors) ==
  [physicalHealth |-> Clamp(10, 100, 50 * Unit + ExpListImpact(h, PhysicalHabits) * 3),
   mentalHealth |-> Clamp(10, 100, 50 * Unit + Scale(ExpListImpact(h, MentalHabits), 35, 10)),
   lifeExpectancy |-> Clamp(65, 95, 78 * Unit + Scale(overallHealth - 50 * Unit, 4, 10)),
   diseaseRisk |-> Clamp(5, 85, 25 * Unit + ImpactSum(exponentialFactors.negative) * 2
                                - Scale(ImpactSum(exponentialFactors.positive), 15, 10))]

\* generatePrioritizedRecommendations, before the slice
CriticalHarmful == <<"chronic_stress", "drugs", "smoking", "alcohol">>

CriticalBeneficial == <<"sleep_consistency", "exercise", "healthy_diet">>

ModerateBeneficial == <<"social_connection", "hydration", "meditation">>

PrioritizedInSelectionOrder(h) ==
  LET ids == [i \in 1..Len(h) |-> h[i].id]
      crit == SelectSeq(ids, LAMBDA id : id \in {"chronic_stress", "drugs", "smoking", "alcohol"}
                                        /\ LevelOf(h, id) > 0)
      high == SelectSeq(CriticalBeneficial, LAMBDA id : LevelOf(h, id) < 2)
      mod  == SelectSeq(ModerateBeneficial, LAMBDA id : LevelOf(h, id) < 3)
      first == [i \in 1..Len(crit) |-> Rec("critical", "Reduce immediately", habitsData[crit[i]].name)]
               \o [i \in 1..Len(high) |-> Rec("high", "Increase", habitsData[high[i]].name)]
  IN first \o (IF Len(first) < 5
               THEN [i \in 1..Len(mod) |-> Rec("moderate", "Improve", habitsData[mod[i]].name)]
               ELSE <<>>)

PrioritizedAllRecommendations(h) ==
  LET crit == SelectSeq(CriticalHarmful, LAMBDA id : LevelOf(h, id) > 0)
      high == SelectSeq(CriticalBeneficial, LAMBDA id : LevelOf(h, id) < 2)
      mod  == SelectSeq(ModerateBeneficial, LAMBDA id : LevelOf(h, id) < 3)
      first == [i \in 1..Len(crit) |-> Rec("critical", "Reduce immediately", habitsData[crit[i]].name)]
               \o [i \in 1..Len(high) |-> Rec("high", "Increase", habitsData[high[i]].name)]
  IN first \o (IF Len(first) < 5
               THEN [i \in 1..Len(mod) |-> Rec("moderate", "Improve", habitsData[mod[i]].name)]
               ELSE <<>>)

generatePrioritizedRecommendations(h) == Slice5(PrioritizedAllRecommendations(h))

\* calculateExponentialHealth of the "exponential" engine
ExpReturn(h, overallHealth, exponentialFactors) ==
  [overallHealth |-> overallHealth,
   organHealth |-> [o \in DOMAIN BASELINE_ORGAN_HEALTH |-> ExpOrganHealth(h, o)],
   exponentialFactors |-> exponentialFactors,
   riskAssessment |-> calculateRiskAssessment(h, overallHealth, exponentialFactors),
   prioritizedRecommendations |-> generatePrioritizedRecommendations(h)]

calculateExponentialHealth(h) ==
  ExpReturn(h, ExpOverallHealth(h),
            [positive |-> ExpFactors(h, TRUE), negative |-> ExpFactors(h, FALSE)])

-----------------------------------------------------------------------------
(* "Targeted" engine: its recommendation generator *)

TargetedCriticalHarmful == <<"drugs", "chronic_stress", "smoking">>

FoundationalHabits == <<"sleep_consistency", "exercise", "healthy_diet">>

TargetedHabits == <<"social_connection", "meditation", "hydration">>

TargetedAllRecommendations(h) ==
  LET crit == SelectSeq(TargetedCriticalHarmful, LAMBDA id : LevelOf(h, id) > 0)
      high == SelectSeq(FoundationalHabits, LAMBDA id : LevelOf(h, id) < 2)
      mod  == SelectSeq(TargetedHabits, LAMBDA id : LevelOf(h, id) < 3)
  IN [i \in 1..Len(crit) |-> Rec("critical", "Reduce immediately", habitsData[crit[i]].name)]
     \o [i \in 1..Len(high) |-> Rec("high", "Improve", habitsData[high[i]].name)]
     \o [i \in 1..Len(mod) |-> Rec("moderate", "Increase", habitsData[mod[i]].name)]

generateTargetedRecommendations(h) == Slice5(TargetedAllRecommendations(h))

-----------------------------------------------------------------------------
(* "Targeted" engine: effects, dominant factors, organ projection *)

Effect(metric, base, curve) == [metric |-> metric, base |-> base, curve |-> curve]

\* base in whole points, curve in tenths
HABIT_EFFECTS ==
  [
   sleep_consistency |-> <<
      Effect("general_health", 18, 16),
      Effect("mental_health", 20, 17),
      Effect("quality_of_life", 12, 13),
      Effect("physical_fitness", 4, 11),
      Effect("happiness", 6, 12),
      Effect("life_expectancy", 8, 14),
      Effect("disease_risk", -15, 15),
      Effect("overall_wellness", 14, 15) >>,
   exercise |-> <<
      Effect("physical_fitness", 20, 18),
      Effect("mental_health", 14, 14),
      Effect("happiness", 12, 13),
      Effect("general_health", 8, 12),
      Effect("quality_of_life", 6, 12),
      Effect("life_expectancy", 10, 14),
      Effect("disease_risk", -12, 14),
      Effect("overall_wellness", 10, 13) >>,
   healthy_diet |-> <<
      Effect("general_health", 16, 15),
      Effect("physical_fitness", 10, 13),
      Effect("life_expectancy", 12, 14),
      Effect("disease_risk", -18, 16),
      Effect("mental_health", 6, 12),
      Effect("happiness", 4, 11),
      Effect("quality_of_life", 8, 12),
      Effect("overall_wellness", 12, 14) >>,
   hydration |-> <<
      Effect("general_health", 8, 13),
      Effect("physical_fitness", 6, 12),
      Effect("mental_health", 4, 11),
      Effect("happiness", 2, 10),
      Effect("quality_of_life", 4, 11),
      Effect("life_expectancy", 3, 11),
      Effect("disease_risk", -5, 12),
      Effect("overall_wellness", 5, 12) >>,
   meditation |-> <<
      Effect("mental_health", 16, 15),
      Effect("happiness", 12, 14),
      Effect("quality_of_life", 10, 13),
      Effect("general_health", 4, 11),
      Effect("physical_fitness", 0, 10),
      Effect("life_expectancy", 3, 11),
      Effect("disease_risk", -6, 12),
      Effect("overall_wellness", 8, 13) >>,
   social_connection |-> <<
      Effect("happiness", 18, 16),
      Effect("mental_health", 14, 14),
      Effect("quality_of_life", 12, 13),
      Effect("life_expectancy", 8, 13),
      Effect("general_health", 4, 11),
      Effect("physical_fitness", 0, 10),
      Effect("disease_risk", -5, 12),
      Effect("overall_wellness", 10, 13) >>,
   reading |-> <<
      Effect("mental_health", 8, 12),
      Effect("happiness", 6, 12),
      Effect("quality_of_life", 4, 11),
      Effect("general_health", 0, 10),
      Effect("physical_fitness", 0, 10),
      Effect("life_expectancy", 2, 10),
      Effect("disease_risk", 0, 10),
      Effect("overall_wellness", 3, 11) >>,
   journaling |-> <<
      Effect("mental_health", 10, 13),
      Effect("happiness", 6, 12),
      Effect("quality_of_life", 4, 11),
      Effect("general_health", 0, 10),
      Effect("physical_fitness", 0, 10),
      Effect("life_expectancy", 0, 10),
      Effect("disease_risk", -2, 10),
      Effect("overall_wellness", 4, 11) >>,
   drugs |-> <<
      Effect("general_health", -30, 18),
      Effect("mental_health", -20, 16),
      Effect("physical_fitness", -8, 13),
      Effect("happiness", 8, 14),
      Effect("quality_of_life", -15, 15),
      Effect("life_expectancy", -12, 15),
      Effect("disease_risk", 25, 17),
      Effect("overall_wellness", -18, 16) >>,
   smoking |-> <<
      Effect("general_health", -18, 16),
      Effect("physical_fitness", -12, 14),
      Effect("life_expectancy", -15, 15),
      Effect("disease_risk", 20, 16),
      Effect("mental_health", -4, 12),
      Effect("happiness", 2, 11),
      Effect("quality_of_life", -8, 13),
      Effect("overall_wellness", -12, 14) >>,
   alcohol |-> <<
      Effect("general_health", -15, 15),
      Effect("mental_health", -12, 14),
      Effect("happiness", 4, 12),
      Effect("quality_of_life", -10, 13),
      Effect("physical_fitness", -6, 12),
      Effect("life_expectancy", -8, 13),
      Effect("disease_risk", 12, 14),
      Effect("overall_wellness", -10, 13) >>,
   chronic_stress |-> <<
      Effect("mental_health", -20, 17),
      Effect("general_health", -16, 15),
      Effect("happiness", -18, 16),
      Effect("quality_of_life", -14, 15),
      Effect("physical_fitness", -8, 13),
      Effect("life_expectancy", -10, 14),
      Effect("disease_risk", 15, 15),
      Effect("overall_wellness", -15, 15) >>,
   processed_diet |-> <<
      Effect("general_health", -12, 14),
      Effect("disease_risk", 15, 15),
      Effect("physical_fitness", -8, 13),
      Effect("life_expectancy", -6, 13),
      Effect("mental_health", -4, 12),
      Effect("happiness", 2, 11),
      Effect("quality_of_life", -6, 12),
      Effect("overall_wellness", -8, 13) >>,
   sedentary |-> <<
      Effect("physical_fitness", -16, 15),
      Effect("general_health", -8, 13),
      Effect("mental_health", -6, 12),
      Effect("happiness", -4, 12),
      Effect("quality_of_life", -6, 12),
      Effect("life_expectancy", -4, 12),
      Effect("disease_risk", 8, 13),
      Effect("overall_wellness", -6, 12) >>,
   social_isolation |-> <<
      Effect("happiness", -16, 15),
      Effect("mental_health", -14, 14),
      Effect("quality_of_life", -10, 13),
      Effect("life_expectancy", -6, 12),
      Effect("general_health", -4, 12),
      Effect("physical_fitness", 0, 10),
      Effect("disease_risk", 4, 12),
      Effect("overall_wellness", -8, 13) >>,
   gaming |-> <<
      Effect("physical_fitness", -8, 13),
      Effect("mental_health", -6, 12),
      Effect("happiness", 4, 12),
      Effect("quality_of_life", -4, 12),
      Effect("general_health", -2, 11),
      Effect("life_expectancy", 0, 10),
      Effect("disease_risk", 2, 11),
      Effect("overall_wellness", -3, 11) >>,
   pornography |-> <<
      Effect("mental_health", -10, 13),
      Effect("happiness", -8, 13),
      Effect("quality_of_life", -6, 12),
      Effect("general_health", 0, 10),
      Effect("physical_fitness", 0, 10),
      Effect("life_expectancy", 0, 10),
      Effect("disease_risk", 0, 10),
      Effect("overall_wellness", -4, 12) >>
  ]

\* BASELINE_HEALTH, in whole points
BASELINE_HEALTH ==
  [general_health |-> 50, mental_health |-> 50, happiness |-> 50, quality_of_life |-> 50,
   physical_fitness |-> 50, life_expectancy |-> 78, disease_risk |-> 25,
   overall_wellness |-> 50]

\* Math.pow(level, curve) / Math.pow(3, curve) in ten-thousandths; curve in tenths
CurveRatio(level, curve) ==
  IF level = 0 THEN 0
  ELSE IF level = 1 THEN
    CASE curve = 10 -> 3333 [] curve = 11 -> 2987 [] curve = 12 -> 2676
      [] curve = 13 -> 2397 [] curve = 14 -> 2148 [] curve = 15 -> 1925
      [] curve = 16 -> 1724 [] curve = 17 -> 1545 [] curve = 18 -> 1384
  ELSE IF level = 2 THEN
    CASE curve = 10 -> 6667 [] curve = 11 -> 6402 [] curve = 12 -> 6147
      [] curve = 13 -> 5903 [] curve = 14 -> 5669 [] curve = 15 -> 5443
      [] curve = 16 -> 5227 [] curve = 17 -> 5019 [] curve = 18 -> 4820
  ELSE Unit

\* HABIT_EFFECTS[habitId]; <<>> stands for undefined
EffectsOf(id) == IF id \in DOMAIN HABIT_EFFECTS THEN HABIT_EFFECTS[id] ELSE <<>>

\* the early returns of the forEach body: level 0, no effects, no catalog entry
TargetedIsProcessed(entry) ==
  /\ entry.level # 0
  /\ entry.id \in DOMAIN HABIT_EFFECTS
  /\ entry.id \in DOMAIN habitsData

\* impact = effect.base * (scaledLevel / Math.pow(3, effect.curve))
TargetedImpact(effect, level) == effect.base * CurveRatio(level, effect.curve)

\* Math.round of a non-negative value, in whole points
Round(x) == (x + Unit \div 2) \div Unit

\* getTargetedExplanation: the parts put into the sentence
getTargetedExplanation(id, metric, level, impact) ==
  [habit |-> habitsData[id].name,
   level |-> level,
   intensity |-> IF Abs(impact) > 15 * Unit THEN "dramatically"
                 ELSE IF Abs(impact) > 8 * Unit THEN "significantly" ELSE "moderately",
   direction |-> IF impact > 0 THEN "improves" ELSE "reduces",
   metric |-> metric,
   points |-> Round(Abs(impact))]

TargetedFactorData(id, effect, level) ==
  [habit |-> habitsData[id].name,
   impact |-> Abs(TargetedImpact(effect, level)),
   explanation |-> getTargetedExplanation(id, effect.metric, level,
                                          TargetedImpact(effect, level))]

\* the effects of one entry that are tracked: Math.abs(impact) >= 5, and the list
\* (impact > 0: positive, else negative) they are pushed to
TargetedTracked(entry, positive) ==
  IF ~TargetedIsProcessed(entry) THEN <<>>
  ELSE LET pos(e) == /\ e.metric \in DOMAIN BASELINE_HEALTH
                     /\ Abs(TargetedImpact(e, entry.level)) >= 5 * Unit
                     /\ TargetedImpact(e, entry.level) > 0
           neg(e) == /\ e.metric \in DOMAIN BASELINE_HEALTH
                     /\ Abs(TargetedImpact(e, entry.level)) >= 5 * Unit
                     /\ ~(TargetedImpact(e, entry.level) > 0)
           sel == IF positive THEN SelectSeq(EffectsOf(entry.id), pos)
                  ELSE SelectSeq(EffectsOf(entry.id), neg)
       IN [k \in 1..Len(sel) |-> TargetedFactorData(entry.id, sel[k], entry.level)]

\* exponentialFactors.positive / .negative as pushed, before the sort
RECURSIVE TargetedPushed(_, _)
TargetedPushed(h, positive) ==
  IF h = <<>> THEN <<>>
  ELSE TargetedTracked(Head(h), positive) \o TargetedPushed(Tail(h), positive)

\* Array.prototype.sort((a, b) => b.impact - a.impact): stable, descending by impact
InsertByImpact(sorted, x) ==
  LET before == SelectSeq(sorted, LAMBDA y : y.impact >= x.impact)
      after  == SelectSeq(sorted, LAMBDA y : y.impact < x.impact)
  IN before \o <<x>> \o after

RECURSIVE SortByImpact(_)
SortByImpact(s) ==
  IF s = <<>> THEN <<>>
  ELSE InsertByImpact(SortByImpact(SubSeq(s, 1, Len(s) - 1)), s[Len(s)])

TargetedFactors(h, positive) == SortByImpact(TargetedPushed(h, positive))

\* what one entry adds to healthMetrics[metric]
TargetedEntryDelta(entry, metric) ==
  IF ~TargetedIsProcessed(entry) THEN 0
  ELSE LET eff == EffectsOf(entry.id)
       IN SumSeq([k \in 1..Len(eff) |->
                    IF eff[k].metric = metric /\ metric \in DOMAIN BASELINE_HEALTH
                    THEN TargetedImpact(eff[k], entry.level) ELSE 0])

\* healthMetrics[metric] after "Ensure realistic bounds"
TargetedMetric(h, metric) ==
  LET raw == BASELINE_HEALTH[metric] * Unit
             + SumSeq([i \in 1..Len(h) |-> TargetedEntryDelta(h[i], metric)])
  IN CASE metric = "life_expectancy" -> Clamp(65, 95, raw)
       [] metric = "disease_risk"    -> Clamp(5, 85, raw)
       [] OTHER                      -> Clamp(10, 100, raw)

\* calculateOrganHealthFromHabits: the starting values, in whole points
TargetedOrganBaseline ==
  [lungs |-> 80, heart |-> 75, brain |-> 85, liver |-> 80, kidneys |-> 85, gut |-> 75,
   skin |-> 80]

\* calculateOrganHealthFromHabits: the switch on habitId, points per level
TargetedOrganEffects ==
  [smoking |-> [lungs |-> -8, heart |-> -6, skin |-> -5],
   alcohol |-> [liver |-> -10, brain |-> -6, gut |-> -4],
   drugs |-> [brain |-> -12, liver |-> -8, kidneys |-> -8, heart |-> -6],
   processed_diet |-> [gut |-> -6, liver |-> -4, heart |-> -4],
   chronic_stress |-> [brain |-> -6, heart |-> -5, gut |-> -4, skin |-> -3],
   exercise |-> [heart |-> 5, lungs |-> 4, brain |-> 3],
   healthy_diet |-> [gut |-> 6, liver |-> 4, heart |-> 4, brain |-> 3],
   sleep_consistency |-> [brain |-> 5, heart |-> 3, liver |-> 3],
   hydration |-> [kidneys |-> 4, skin |-> 3, brain |-> 2]]

TargetedOrganWeight(id, organId) ==
  IF id \in DOMAIN TargetedOrganEffects /\ organId \in DOMAIN TargetedOrganEffects[id]
  THEN TargetedOrganEffects[id][organId] ELSE 0

\* the running value of one organ after the forEach, before the bounds
TargetedOrganRaw(h, organId) ==
  (TargetedOrganBaseline[organId]
   + SumSeq([i \in 1..Len(h) |-> h[i].level * TargetedOrganWeight(h[i].id, organId)])) * Unit

TargetedOrganUnbounded(h, organId) == TargetedOrganRaw(h, organId)

\* "Ensure realistic bounds for all organs"
TargetedOrganHealth(h, organId) == Clamp(15, 100, TargetedOrganRaw(h, organId))

calculateOrganHealthFromHabits(h) ==
  [o \in DOMAIN TargetedOrganBaseline |-> TargetedOrganHealth(h, o)]

\* calculateExponentialHealth of the "targeted" engine
calculateTargetedHealth(h) ==
  [overallHealth |-> TargetedMetric(h, "general_health"),
   organHealth |-> calculateOrganHealthFromHabits(h),
   exponentialFactors |-> [positive |-> TargetedFactors(h, TRUE),
                           negative |-> TargetedFactors(h, FALSE)],
   riskAssessment |->
     [physicalHealth |-> TargetedMetric(h, "physical_fitness"),
      mentalHealth |-> TargetedMetric(h, "mental_health"),
      lifeExpectancy |-> TargetedMetric(h, "life_expectancy"),
      diseaseRisk |-> TargetedMetric(h, "disease_risk")],
   prioritizedRecommendations |-> generateTargetedRecommendations(h)]

-----------------------------------------------------------------------------
(* Early store: calculateMeters with Math.random()                         *)
(* A selection of this store maps an id to its level directly.  Of the     *)
(* returned Meters the model keeps health, happiness and lifeExpectancy;   *)
(* each further field takes one more independent Math.random() draw.       *)

\* Math.random(), in thousandths: a draw below, at and above one half
RandomDraws == {0, 500, 999}

\* the levels that pass the filter of validHabits
LegacyValidLevels(h) ==
  SelectSeq([i \in 1..Len(h) |-> h[i].level], LAMBDA l : l >= 0 /\ l <= 3)

\* clampedAvg: the mean level (50 for no valid entry) times 25, within 0..100
LegacyClampedAvg(h) ==
  LET v == LegacyValidLevels(h)
      avgHabit == IF Len(v) > 0 THEN (SumSeq(v) * Unit) \div Len(v) ELSE 50 * Unit
  IN Clamp(0, 100, avgHabit * 25)

\* calculateMeters(habits) when Math.random() returns r1, then r2
LegacyCalculateMeters(h, r1, r2) ==
  LET baseHealth == Clamp(0, 100, LegacyClampedAvg(h) + (r1 - 500) * 10 * 10)
      baseHappiness == Clamp(0, 100, Scale(LegacyClampedAvg(h), 9, 10) + (r2 - 500) * 15 * 10)
  IN [health |-> baseHealth,
      happiness |-> baseHappiness,
      lifeExpectancy |-> Max(60 * Unit, Min(100 * Unit,
                             75 * Unit + Scale(baseHealth - 50 * Unit, 3, 10)))]

-----------------------------------------------------------------------------
(* Inputs *)

Entries == [id : HabitIds, level : Levels]

DistinctIds(h) == \A i, j \in 1..Len(h) : i # j => h[i].id # h[j].id

\* every selection of at most n entries, in every insertion order
SelectionsUpTo(n) ==
  UNION {{h \in [1..k -> Entries] : DistinctIds(h)} : k \in 0..n}

\* the foundational habits of the maxed scenario, at every level
FoundationalIds == <<"sleep_consistency", "exercise", "healthy_diet", "social_connection">>

FoundationalSelections ==
  {[i \in 1..4 |-> [id |-> FoundationalIds[i], level |-> l[i]]] : l \in [1..4 -> Levels]}

LegacyIds == {"exercise", "smoking"}

LegacySelections ==
  UNION {{h \in [1..k -> [id : LegacyIds, level : Levels]] : DistinctIds(h)}
           : k \in 0..MaxLegacySel}

-----------------------------------------------------------------------------
(* Pure-engine specification: an input selection, then one engine call *)

InitEngine ==
  /\ habits \in SelectionsUpTo(MaxSel) \cup FoundationalSelections
  /\ pc = "input"
  /\ result = NoResult
  /\ meters = NoResult
  /\ legacyHabits = <<>>
  /\ legacyPc = "idle"
  /\ legacyFirst = NoResult
  /\ legacySecond = NoResult
  /\ InitUi

legacyVars == <<legacyHabits, legacyPc, legacyFirst, legacySecond>>

RunRealistic ==
  /\ pc = "input"
  /\ pc' = "realistic"
  /\ result' = calculateRealisticHealth(habits)
  /\ UNCHANGED <<habits, meters, legacyVars, storeUi, lastCall>>

\* the tiered engine run with one selected habit of the impact model missing
\* from the catalog
RunRealisticUncatalogued ==
  /\ pc = "input"
  /\ \E i \in 1..Len(habits) :
        /\ habits[i].level > 0
        /\ habits[i].id \in DOMAIN HABIT_IMPACT_MATRIX
        /\ result' = [missing |-> habits[i].id,
                      value |-> calculateRealisticHealthWithout(habits, {habits[i].id})]
  /\ pc' = "uncatalogued"
  /\ UNCHANGED <<habits, meters, legacyVars, storeUi, lastCall>>

RunExponential ==
  /\ pc = "input"
  /\ pc' = "exponential"
  /\ result' = calculateExponentialHealth(habits)
  /\ UNCHANGED <<habits, meters, legacyVars, storeUi, lastCall>>

RunTargeted ==
  /\ pc = "input"
  /\ pc' = "targeted"
  /\ result' = calculateTargetedHealth(habits)
  /\ UNCHANGED <<habits, meters, legacyVars, storeUi, lastCall>>

RunMeters ==
  /\ pc = "input"
  /\ pc' = "meters"
  /\ meters' = calculateMeters(habits)
  /\ UNCHANGED <<habits, result, legacyVars, storeUi, lastCall>>

NextEngine ==
  \/ RunRealistic
  \/ RunRealisticUncatalogued
  \/ RunExponential
  \/ RunTargeted
  \/ RunMeters

SpecEngine == InitEngine /\ [][NextEngine]_vars

-----------------------------------------------------------------------------
(* Early-store specification: calculateMeters called twice on one selection *)

InitLegacy ==
  /\ habits = <<>>
  /\ pc = "input"
  /\ result = NoResult
  /\ meters = NoResult
  /\ legacyHabits \in LegacySelections
  /\ legacyPc = "idle"
  /\ legacyFirst = NoResult
  /\ legacySecond = NoResult
  /\ InitUi

LegacyCallFirst ==
  /\ legacyPc = "idle"
  /\ \E r1, r2 \in RandomDraws : legacyFirst' = LegacyCalculateMeters(legacyHabits, r1, r2)
  /\ legacyPc' = "once"
  /\ UNCHANGED <<habits, pc, result, meters, legacyHabits, legacySecond, storeUi, lastCall>>

LegacyCallSecond ==
  /\ legacyPc = "once"
  /\ \E r1, r2 \in RandomDraws : legacySecond' = LegacyCalculateMeters(legacyHabits, r1, r2)
  /\ legacyPc' = "twice"
  /\ UNCHANGED <<habits, pc, result, meters, legacyHabits, legacyFirst, storeUi, lastCall>>

NextLegacy == LegacyCallFirst \/ LegacyCallSecond

SpecLegacy == InitLegacy /\ [][NextLegacy]_vars

-----------------------------------------------------------------------------
(* Store specification: useAtlasStore, its state and its setters.  habits is   *)
(* selectedHabits and meters is the stored Meters.                             *)

\* largest number of keys selectedHabits is let to grow to
MaxStoreSel == 2

\* the habit ids handed to setHabitLevel
StoreIds == {"smoking", "exercise", "sleep_consistency"}

\* the level handed to setHabitLevel, counted in halves: n stands for n / 2
HalfLevels == (0 - 2)..(2 * MaxLevel + 2)

\* what a level argument is, whatever the setter does with it: an integer of
\* 0..MaxLevel or not (recorded in lastCall)
IsIntegerInRange(halves) == halves \in {2 * l : l \in Levels}

\* a variant of IsValidLevel without the Number.isInteger test
IsValidLevelAnyNumber(halves) == halves >= 0 /\ halves <= 2 * MaxLevel

\* the negation of the test of "Validate input"
IsValidLevel(halves) == halves % 2 = 0 /\ halves >= 0 /\ halves <= 2 * MaxLevel

\* the organ ids handed to setFocusOrgan
FocusArgs == {Undefined, "heart"}

CompareModes == {"off", "before", "after"}

InitStore ==
  /\ habits = <<>>
  /\ meters = calculateMeters(<<>>)
  /\ pc = "store"
  /\ result = NoResult
  /\ legacyHabits = <<>>
  /\ legacyPc = "idle"
  /\ legacyFirst = NoResult
  /\ legacySecond = NoResult
  /\ InitUi

\* the try block of setHabitLevel: set() unless calculateMeters threw
\* a variant of StoreSet that replaces selectedHabits and keeps the old meters
StoreSetHabitsOnly(newHabits, newMeters) == habits' = newHabits /\ UNCHANGED meters

StoreSet(newHabits, newMeters) ==
  IF "threw" \in DOMAIN newMeters
  THEN UNCHANGED <<habits, meters>>
  ELSE habits' = newHabits /\ meters' = newMeters

\* the selections selectedHabits can hold, in every insertion order
StoreSelections ==
  UNION {{h \in [1..k -> [id : StoreIds, level : Levels]] : DistinctIds(h)} :
           k \in 0..MaxStoreSel}

\* calculateMeters(newHabits), tabulated: the function is pure, so each
\* selection is computed once (@@ makes the table an explicit one)
NewMeters == [newHabits \in StoreSelections |-> calculateMeters(newHabits)] @@ <<>>

StoreTry(newHabits) ==
  /\ Len(newHabits) <= MaxStoreSel
  /\ StoreSet(newHabits, NewMeters[newHabits])

setHabitLevel(habitId, halves) ==
  /\ pc = "store"
  /\ IF ~IsValidLevel(halves)
     THEN UNCHANGED <<habits, meters>>
     ELSE StoreTry(SetEntry(habits, habitId, halves \div 2))
  /\ lastCall' = Call("setHabitLevel", habitId, IsIntegerInRange(halves),
                      IF IsIntegerInRange(halves) THEN halves \div 2 ELSE 0 - 1)
  /\ UNCHANGED <<pc, result, legacyVars, storeUi>>

setFocusOrgan(organId) ==
  /\ pc = "store"
  /\ focusOrganId' = organId
  /\ lastCall' = Call("setFocusOrgan", "", TRUE, 0 - 1)
  /\ UNCHANGED <<habits, pc, result, meters, legacyVars, compareMode, reduceMotion,
                 highContrast>>

setCompareMode(mode) ==
  /\ pc = "store"
  /\ compareMode' = mode
  /\ lastCall' = Call("setCompareMode", "", TRUE, 0 - 1)
  /\ UNCHANGED <<habits, pc, result, meters, legacyVars, focusOrganId, reduceMotion,
                 highContrast>>

\* a variant of toggleReduceMotion that builds accessibility without the spread
toggleReduceMotionNoSpread ==
  /\ pc = "store"
  /\ reduceMotion' = ~reduceMotion
  /\ highContrast' = FALSE
  /\ lastCall' = Call("toggleReduceMotion", "", TRUE, 0 - 1)
  /\ UNCHANGED <<habits, pc, result, meters, legacyVars, focusOrganId, compareMode>>

toggleReduceMotion ==
  /\ pc = "store"
  /\ reduceMotion' = ~reduceMotion
  /\ lastCall' = Call("toggleReduceMotion", "", TRUE, 0 - 1)
  /\ UNCHANGED <<habits, pc, result, meters, legacyVars, focusOrganId, compareMode,
                 highContrast>>

toggleHighContrast ==
  /\ pc = "store"
  /\ highContrast' = ~highContrast
  /\ lastCall' = Call("toggleHighContrast", "", TRUE, 0 - 1)
  /\ UNCHANGED <<habits, pc, result, meters, legacyVars, focusOrganId, compareMode,
                 reduceMotion>>

\* the level test of the sidebar's handleLevelChange
IsSidebarLevel(halves) == ~(halves < 0 \/ halves > 2 * MaxLevel \/ halves % 2 # 0)

\* the sidebar's handleLevelChange of the card of a catalog habit: it warns and
\* returns on a level it rejects, and calls setHabitLevel otherwise
handleLevelChange(habitId, halves) ==
  IF IsSidebarLevel(halves)
  THEN setHabitLevel(habitId, halves)
  ELSE /\ pc = "store"
       /\ lastCall' = Call("handleLevelChange", habitId, IsIntegerInRange(halves), 0 - 1)
       /\ UNCHANGED <<habits, pc, result, meters, legacyVars, storeUi>>

\* the habits that have a card in the sidebar
SidebarIds == StoreIds \cap CatalogIds

CallHandleLevelChange ==
  \E habitId \in SidebarIds, halves \in HalfLevels : handleLevelChange(habitId, halves)

CallSetHabitLevel == \E habitId \in StoreIds, halves \in HalfLevels : setHabitLevel(habitId, halves)

CallSetFocusOrgan == \E organId \in FocusArgs : setFocusOrgan(organId)

CallSetCompareMode == \E mode \in CompareModes : setCompareMode(mode)

NextStore ==
  \/ CallSetHabitLevel
  \/ CallHandleLevelChange
  \/ CallSetFocusOrgan
  \/ CallSetCompareMode
  \/ toggleReduceMotion
  \/ toggleHighContrast

SpecStore == InitStore /\ [][NextStore]_vars


-----------------------------------------------------------------------------
(* Profile panel (PerfilUtilizador): the recommendation list it derives from the
   store's meters and selectedHabits *)

PanelEntry(priority, habit) == [priority |-> priority, habit |-> habit]

\* "Critical recommendations for exponentially harmful habits"
PanelCritical(m) ==
  LET listed == SelectSeq(m.exponentialFactors.negative,
                          LAMBDA factor : factor.impact < 0 - 15 * Unit)
  IN [i \in 1..Len(listed) |-> PanelEntry("critical", listed[i].habit)]

beneficialHabits == <<"exercise", "sleep_consistency", "healthy_diet", "social_connection">>

\* "High priority for missing exponentially beneficial habits"
PanelHigh(h) ==
  LET absent == SelectSeq(beneficialHabits,
                          LAMBDA habit : ~HasKey(h, habit) \/ LevelOf(h, habit) = 0)
  IN [i \in 1..Len(absent) |-> PanelEntry("high", absent[i])]

\* meters.overallHealth || 75
PanelOverallHealth(m) ==
  IF "overallHealth" \in DOMAIN m /\ m.overallHealth # 0
  THEN m.overallHealth
  ELSE 75 * Unit

\* "Moderate recommendations for optimization"
PanelModerate(m) ==
  IF PanelOverallHealth(m) < 70 * Unit
  THEN << PanelEntry("moderate", Undefined) >>
  ELSE <<>>

getPrioritizedRecommendations(m, h) ==
  Slice5(PanelCritical(m) \o PanelHigh(h) \o PanelModerate(m))

-----------------------------------------------------------------------------
(* Properties *)

InRange(x, lo, hi) == lo * Unit <= x /\ x <= hi * Unit

Ran(engine) == pc = engine

\* C1 (clamp correctness): whatever the selection, the tiered engine's overallHealth,
\* mentalHealth and physicalHealth lie in [10,100], its lifeExpectancy in [65,95] and
\* its diseaseRisk in [5,85]; the same holds of the meters the store derives from it.
ClampCorrectness ==
  /\ Ran("realistic") =>
       /\ InRange(result.overallHealth, 10, 100)
       /\ InRange(result.riskAssessment.mentalHealth, 10, 100)
       /\ InRange(result.riskAssessment.physicalHealth, 10, 100)
       /\ InRange(result.riskAssessment.lifeExpectancy, 65, 95)
       /\ InRange(result.riskAssessment.diseaseRisk, 5, 85)
  /\ Ran("meters") =>
       /\ InRange(meters.health, 10, 100)
       /\ InRange(meters.mentalHealth, 10, 100)
       /\ InRange(meters.physicalFitness, 10, 100)
       /\ InRange(meters.lifeExpectancy, 65, 95)
       /\ InRange(meters.diseaseRisk, 5, 85)

\* a selection whose summed deltas fall below the ranges, and was bounded
ClampCorrectnessWitness ==
  /\ Ran("realistic")
  /\ RawMetric(habits, "generalHealth") < 10 * Unit
  /\ RawMetric(habits, "lifeExpectancy") < 65 * Unit
  /\ result.overallHealth = 10 * Unit
  /\ result.riskAssessment.lifeExpectancy = 65 * Unit
  /\ result.riskAssessment.diseaseRisk = 85 * Unit

\* C2 (baseline identity, metrics): for the empty selection the tiered engine returns
\* overallHealth 50, mentalHealth 50, physicalHealth 50, lifeExpectancy 78 and two
\* empty dominant-factor lists, and the store's meters for {} carry these values.
BaselineIdentityMetrics ==
  /\ (Ran("realistic") /\ habits = <<>>) =>
       /\ result.overallHealth = 50 * Unit
       /\ result.riskAssessment.mentalHealth = 50 * Unit
       /\ result.riskAssessment.physicalHealth = 50 * Unit
       /\ result.riskAssessment.lifeExpectancy = 78 * Unit
       /\ result.exponentialFactors.positive = <<>>
       /\ result.exponentialFactors.negative = <<>>
  /\ (Ran("meters") /\ habits = <<>>) =>
       /\ meters.health = 50 * Unit
       /\ meters.mentalHealth = 50 * Unit
       /\ meters.physicalFitness = 50 * Unit
       /\ meters.lifeExpectancy = 78 * Unit
       /\ meters.exponentialFactors = [positive |-> <<>>, negative |-> <<>>]

BaselineIdentityMetricsWitness ==
  /\ Ran("meters")
  /\ habits = <<>>
  /\ meters.health = 50 * Unit
  /\ meters.lifeExpectancy = 78 * Unit

\* C3 (baseline identity, organs): for the empty selection every engine that returns
\* an organ profile returns, for each of the seven organs, that organ's own declared
\* baseline (lungs 82, heart 78, brain 85, liver 80, kidneys 85, gut 75, skin 80).
OrganBaselineIdentity ==
  ((Ran("realistic") \/ Ran("exponential")) /\ habits = <<>>) =>
     \A o \in OrganSet : result.organHealth[o] = BASELINE_ORGAN_HEALTH[o] * Unit

\* C4 (determinism): two calls of calculateMeters on one selection return the same
\* Meters; here for the early store's calculateMeters.
LegacyDeterminism ==
  legacyPc = "twice" => legacyFirst = legacySecond

RecommendationCap ==
  (Ran("realistic") \/ Ran("exponential") \/ Ran("targeted")) =>
     Len(result.prioritizedRecommendations) <= 5

\* a selection for which more than 5 rules fire, and 5 entries are returned
RecommendationCapWitness ==
  /\ Ran("exponential")
  /\ Len(PrioritizedAllRecommendations(habits)) > 5
  /\ Len(result.prioritizedRecommendations) = 5

\* C7 (recommendation order): in every returned list the critical entries come
\* first, then the high, then the moderate ones, and inside a tier the entries are in
\* the order of that tier's fixed habit list; the list is the same for every
\* insertion order of the selection's entries.
TierRank(priority) ==
  CASE priority = "critical" -> 1 [] priority = "high" -> 2 [] priority = "moderate" -> 3

\* the fixed order in which an engine's rules test the habits
RuleOrder(engine) ==
  CASE engine = "realistic" ->
         RealisticCriticalHabits
         \o <<"sleep_consistency", "exercise", "social_connection", "healthy_diet">>
    [] engine = "exponential" -> CriticalHarmful \o CriticalBeneficial \o ModerateBeneficial
    [] engine = "targeted" -> TargetedCriticalHarmful \o FoundationalHabits \o TargetedHabits

PlaceIn(s, x) == CHOOSE k \in 1..Len(s) : s[k] = x

Reverse(s) == [i \in 1..Len(s) |-> s[Len(s) + 1 - i]]

OrderedBy(recs, order) ==
  \A i, j \in 1..Len(recs) :
     i < j =>
       /\ TierRank(recs[i].priority) <= TierRank(recs[j].priority)
       /\ PlaceIn(order, recs[i].habit) < PlaceIn(order, recs[j].habit)

RecommendationOrder ==
  /\ (Ran("realistic") \/ Ran("exponential") \/ Ran("targeted")) =>
       OrderedBy(result.prioritizedRecommendations, RuleOrder(pc))
  /\ Ran("realistic") =>
       result.prioritizedRecommendations = generateRealisticRecommendations(Reverse(habits))
  /\ Ran("exponential") =>
       result.prioritizedRecommendations = generatePrioritizedRecommendations(Reverse(habits))
  /\ Ran("targeted") =>
       result.prioritizedRecommendations = generateTargetedRecommendations(Reverse(habits))

\* two critical habits inserted against the order of the fixed list
RecommendationOrderWitness ==
  /\ Ran("exponential")
  /\ Len(habits) = 2
  /\ habits[1].id = "alcohol" /\ habits[1].level = 1
  /\ habits[2].id = "chronic_stress" /\ habits[2].level = 3
  /\ result.prioritizedRecommendations[1].habit = "chronic_stress"
  /\ result.prioritizedRecommendations[2].habit = "alcohol"
  /\ result.prioritizedRecommendations[3].priority = "high"


\* C8 (scenario smoking): for {smoking: 3, exercise: 0} the first recommendation is
\* the critical "reduce smoking" one, and lungs and heart are both strictly below
\* their values for the empty selection (tiered and exponential engine).
IsSmokingScenario(h) ==
  /\ Len(h) = 2
  /\ HasKey(h, "smoking") /\ LevelOf(h, "smoking") = 3
  /\ HasKey(h, "exercise") /\ LevelOf(h, "exercise") = 0

ScenarioSmoking ==
  IsSmokingScenario(habits) =>
    /\ Ran("realistic") =>
         /\ Len(result.prioritizedRecommendations) >= 1
         /\ result.prioritizedRecommendations[1] = Rec("critical", "Immediately reduce", "smoking")
         /\ result.organHealth["lungs"] < calculateRealisticHealth(<<>>).organHealth["lungs"]
         /\ result.organHealth["heart"] < calculateRealisticHealth(<<>>).organHealth["heart"]
    /\ Ran("exponential") =>
         /\ Len(result.prioritizedRecommendations) >= 1
         /\ result.prioritizedRecommendations[1] = Rec("critical", "Reduce immediately", "smoking")
         /\ result.organHealth["lungs"] < calculateExponentialHealth(<<>>).organHealth["lungs"]
         /\ result.organHealth["heart"] < calculateExponentialHealth(<<>>).organHealth["heart"]

ScenarioSmokingWitness ==
  /\ Ran("realistic")
  /\ habits = << [id |-> "smoking", level |-> 3], [id |-> "exercise", level |-> 0] >>
  /\ result.prioritizedRecommendations[1].priority = "critical"
  /\ result.organHealth["heart"] = 15 * Unit

\* C9 (scenario all foundational maxed): for {sleep_consistency: 3, exercise: 3,
\* healthy_diet: 3, social_connection: 3} the tiered engine returns overallHealth
\* 100 and mentalHealth 100, and its positive dominant-factor list is not empty.
MaxedFoundational == [i \in 1..4 |-> [id |-> FoundationalIds[i], level |-> 3]]

ScenarioFoundationalMaxed ==
  (Ran("realistic") /\ habits = MaxedFoundational) =>
     /\ result.overallHealth = 100 * Unit
     /\ result.riskAssessment.mentalHealth = 100 * Unit
     /\ result.exponentialFactors.positive # <<>>

ScenarioFoundationalMaxedWitness ==
  /\ Ran("realistic")
  /\ habits = MaxedFoundational
  /\ RawMetric(habits, "generalHealth") > 100 * Unit
  /\ Len(result.exponentialFactors.positive) = 4

\* C10 (monotonicity): for a beneficial habit and a metric on which it has a positive
\* multiplier, the raw contribution at a higher level is at least the contribution at
\* a lower level (levels 0..3, each effect shape); and raising the level of such a
\* habit in a selection, all other entries fixed, never lowers the bounded metric.
PositiveImpacts(id) ==
  {k \in 1..Len(ImpactsOf(id)) : ImpactsOf(id)[k].multiplier > 0}

RawContributionMonotone ==
  \A id \in GoodHabits : \A k \in PositiveImpacts(id) : \A l1, l2 \in Levels :
     l1 < l2 =>
       /\ l1 >= 1 => EffectValue(ImpactsOf(id)[k], l2) >= EffectValue(ImpactsOf(id)[k], l1)
       /\ EntryDelta([id |-> id, level |-> l2], ImpactsOf(id)[k].metric)
            >= EntryDelta([id |-> id, level |-> l1], ImpactsOf(id)[k].metric)

Monotonicity ==
  Ran("realistic") =>
    /\ RawContributionMonotone
    /\ result.overallHealth = BoundedMetric(habits, "generalHealth")
    /\ \A id \in GoodHabits : \A k \in PositiveImpacts(id) : \A l2 \in Levels :
         l2 > LevelOf(habits, id) =>
           BoundedMetric(SetEntry(habits, id, l2), ImpactsOf(id)[k].metric)
             >= BoundedMetric(habits, ImpactsOf(id)[k].metric)

\* raising sleep from 1 to 2 raises the raw sum of a metric that is already bounded at 100
MonotonicityWitness ==
  /\ Ran("realistic")
  /\ Len(habits) = 4
  /\ habits[1] = [id |-> "sleep_consistency", level |-> 1]
  /\ RawMetric(habits, "generalHealth") > 100 * Unit
  /\ RawMetric(SetEntry(habits, "sleep_consistency", 2), "generalHealth")
       > RawMetric(habits, "generalHealth")
  /\ RawMetric(SetEntry(habits, "sleep_consistency", 2), "physicalFitness")
       > RawMetric(habits, "physicalFitness")
  /\ result.overallHealth = 100 * Unit


\* C11 (dominant-factor direction): in the result of every engine each entry of the
\* positive list names a beneficial habit and each entry of the negative list names a
\* harmful habit, whatever the sign of a single delta.
DominantFactorDirection ==
  (Ran("realistic") \/ Ran("exponential") \/ Ran("targeted")) =>
     /\ \A i \in 1..Len(result.exponentialFactors.positive) :
          habitsData[result.exponentialFactors.positive[i].habit].kind = "good"
     /\ \A i \in 1..Len(result.exponentialFactors.negative) :
          habitsData[result.exponentialFactors.negative[i].habit].kind = "bad"


\* C12 (dominant-factor order): in the result of every engine the positive list and
\* the negative list are each in order of non-increasing impact.
NonIncreasingImpact(factors) ==
  \A i \in 1..(Len(factors) - 1) : factors[i].impact >= factors[i + 1].impact

DominantFactorOrder ==
  (Ran("realistic") \/ Ran("exponential") \/ Ran("targeted")) =>
     /\ NonIncreasingImpact(result.exponentialFactors.positive)
     /\ NonIncreasingImpact(result.exponentialFactors.negative)


\* C13 (dominant-factor qualification): in the tiered engine a selected habit
\* (level > 0) is listed as a dominant factor exactly when one of its descriptors is
\* 'exponential' with |multiplier| > 3.0, and the impact reported for it is the sum
\* of |multiplier * level^curve| over its exponential descriptors only.
ExponentialDescriptors(id) ==
  IF id \in DOMAIN HABIT_IMPACT_MATRIX
  THEN {k \in 1..Len(HABIT_IMPACT_MATRIX[id]) : HABIT_IMPACT_MATRIX[id][k].type = "exponential"}
  ELSE {}

Qualifies(id) ==
  \E k \in ExponentialDescriptors(id) :
     \/ HABIT_IMPACT_MATRIX[id][k].multiplier > 30
     \/ HABIT_IMPACT_MATRIX[id][k].multiplier < -30

RECURSIVE SumOver(_, _, _)
SumOver(id, level, ks) ==
  IF ks = {} THEN 0
  ELSE LET k == CHOOSE x \in ks : TRUE
       IN Abs(HABIT_IMPACT_MATRIX[id][k].multiplier
              * Pow(level, HABIT_IMPACT_MATRIX[id][k].curve))
          + SumOver(id, level, ks \ {k})

ListedFactors(factors, id) ==
  {i \in 1..Len(factors.positive) : factors.positive[i].habit = id}
    \cup {-i : i \in {j \in 1..Len(factors.negative) : factors.negative[j].habit = id}}

ImpactAt(factors, i) ==
  IF i > 0 THEN factors.positive[i].impact ELSE factors.negative[-i].impact

DominantFactorQualification ==
  Ran("realistic") =>
    \A e \in 1..Len(habits) :
       /\ (ListedFactors(result.exponentialFactors, habits[e].id) # {})
            <=> (habits[e].level > 0 /\ Qualifies(habits[e].id))
       /\ \A i \in ListedFactors(result.exponentialFactors, habits[e].id) :
            ImpactAt(result.exponentialFactors, i)
              = SumOver(habits[e].id, habits[e].level, ExponentialDescriptors(habits[e].id))

\* healthy_diet (one exponential descriptor, five linear ones) is listed with the
\* impact 3.8 * 2^1.7 of that descriptor, next to a selected habit that is not listed
DominantFactorQualificationWitness ==
  /\ Ran("realistic")
  /\ Len(habits) = 2
  /\ habits[1] = [id |-> "healthy_diet", level |-> 2]
  /\ habits[2].level = 3
  /\ ~Qualifies(habits[2].id)
  /\ habits[2].id \in DOMAIN HABIT_IMPACT_MATRIX
  /\ Len(result.exponentialFactors.positive) = 1
  /\ result.exponentialFactors.negative = <<>>
  /\ result.exponentialFactors.positive[1].impact = 38 * 3249


\* C14 (sum-then-clamp): each metric the tiered engine returns is the bound, applied
\* once, of baseline + the sum of the deltas of all entries; so it is the same for the
\* selection iterated in the opposite order, also when the running sum leaves the
\* range on the way.
ReturnedMetrics == {"generalHealth", "mentalHealth", "physicalFitness", "lifeExpectancy"}

Returned(res, metric) ==
  CASE metric = "generalHealth"   -> res.overallHealth
    [] metric = "mentalHealth"    -> res.riskAssessment.mentalHealth
    [] metric = "physicalFitness" -> res.riskAssessment.physicalHealth
    [] metric = "lifeExpectancy"  -> res.riskAssessment.lifeExpectancy

RECURSIVE DeltaSum(_, _, _)
DeltaSum(h, metric, idx) ==
  IF idx = {} THEN 0
  ELSE LET i == CHOOSE x \in idx : TRUE
       IN EntryDelta(h[i], metric) + DeltaSum(h, metric, idx \ {i})

LowerBound(metric) == IF metric = "lifeExpectancy" THEN 65 ELSE 10

UpperBound(metric) == IF metric = "lifeExpectancy" THEN 95 ELSE 100

EngineLevel0Neutral ==
  /\ \A id \in HabitIds :
       ~HasKey(habits, id) =>
          calculateRealisticHealth(Append(habits, [id |-> id, level |-> 0]))
            = calculateRealisticHealth(habits)
  /\ \A i \in 1..Len(habits) :
       habits[i].level = 0 =>
          calculateRealisticHealth(RemoveAt(habits, i)) = calculateRealisticHealth(habits)

AddsAtLevel0 ==
  \E id \in HabitIds :
     ~HasKey(habits, id) /\ habits' = Append(habits, [id |-> id, level |-> 0])

Level0Neutrality ==
  /\ [](pc = "store" => EngineLevel0Neutral)
  /\ [][AddsAtLevel0 => meters' = meters]_vars

\* setHabitLevel('exercise', 0) has acted on a selection that held smoking at level 2
Level0NeutralityWitness ==
  /\ pc = "store"
  /\ habits = << [id |-> "smoking", level |-> 2], [id |-> "exercise", level |-> 0] >>
  /\ meters = calculateMeters(<< [id |-> "smoking", level |-> 2] >>)
  /\ meters.health < 50 * Unit


\* C16 (organ decoupling): an organ none of whose table habits is selected at a
\* level above 0 keeps the value it has for the empty selection (tiered and
\* exponential engine).
RealisticOrganHabits(organId) ==
  CASE organId = "lungs" -> {"smoking"}
    [] organId = "liver" -> {"alcohol"}
    [] organId = "brain" -> {"drugs"}
    [] organId = "heart" -> {"exercise"}
    [] OTHER -> {}

Untouched(h, tableHabits) == \A id \in tableHabits : LevelOf(h, id) = 0

OrganDecoupling ==
  /\ Ran("realistic") =>
       \A o \in OrganSet :
          Untouched(habits, RealisticOrganHabits(o)) =>
             result.organHealth[o] = calculateRealisticHealth(<<>>).organHealth[o]
  /\ Ran("exponential") =>
       \A o \in OrganSet :
          Untouched(habits, DOMAIN ORGAN_VULNERABILITIES[o]) =>
             result.organHealth[o] = BASELINE_ORGAN_HEALTH[o] * Unit


CriticalSet == {"chronic_stress", "drugs", "smoking", "alcohol"}

CountRecs(recs, priority, id) ==
  Cardinality({i \in 1..Len(recs) : recs[i].priority = priority /\ recs[i].habit = id})

CriticalRule ==
  (Ran("realistic") \/ Ran("exponential") \/ Ran("targeted")) =>
     \A id \in CriticalSet :
        CountRecs(result.prioritizedRecommendations, "critical", id)
          = IF LevelOf(habits, id) >= 1 THEN 1 ELSE 0

\* C19 (high rule): the 'high' entries of the returned list are, in the order
\* sleep_consistency, exercise, healthy_diet, the foundational habits whose level is
\* below 2, as many of them as fit after the critical entries in a list of 5.
HabitsOfTier(recs, priority) ==
  LET sel == SelectSeq(recs, LAMBDA r : r.priority = priority)
  IN [i \in 1..Len(sel) |-> sel[i].habit]

FoundationalBelowTarget(h) ==
  SelectSeq(<<"sleep_consistency", "exercise", "healthy_diet">>, LAMBDA id : LevelOf(h, id) < 2)

HighRule ==
  (Ran("realistic") \/ Ran("exponential") \/ Ran("targeted")) =>
     HabitsOfTier(result.prioritizedRecommendations, "high")
       = SubSeq(FoundationalBelowTarget(habits), 1,
                Min(Len(FoundationalBelowTarget(habits)),
                    5 - Len(HabitsOfTier(result.prioritizedRecommendations, "critical"))))

\* C20 (moderate rule): every 'moderate' entry of the returned list is for a habit of
\* {social_connection, meditation, hydration} that is below level 3, and their number
\* is min(number of such habits, 5 - number of critical and high entries), 0 when
\* the critical and high entries already number 5 or more.
SecondarySet == {"social_connection", "meditation", "hydration"}

ModerateExpected(h, before) ==
  IF before >= 5 THEN 0
  ELSE Min(Cardinality({id \in SecondarySet : LevelOf(h, id) < 3}), 5 - before)

ModerateRule ==
  (Ran("realistic") \/ Ran("exponential") \/ Ran("targeted")) =>
     /\ \A i \in 1..Len(result.prioritizedRecommendations) :
          result.prioritizedRecommendations[i].priority = "moderate" =>
             /\ result.prioritizedRecommendations[i].habit \in SecondarySet
             /\ LevelOf(habits, result.prioritizedRecommendations[i].habit) < 3
     /\ Len(HabitsOfTier(result.prioritizedRecommendations, "moderate"))
          = ModerateExpected(habits,
               Len(HabitsOfTier(result.prioritizedRecommendations, "critical"))
               + Len(HabitsOfTier(result.prioritizedRecommendations, "high")))


(* C21: a call setHabitLevel(h, level), made directly or through the sidebar's
   handleLevelChange, whose level is not an integer, is negative or is above
   the maximum level leaves selectedHabits and meters as they were *)
IsLevelCall(call) == call.op \in {"setHabitLevel", "handleLevelChange"}

InvalidLevelRejected ==
  [][(IsLevelCall(lastCall') /\ ~lastCall'.valid) =>
       (habits' = habits /\ meters' = meters)]_vars

InvalidLevelRejectedWitness ==
  /\ pc = "store"
  /\ lastCall.op = "setHabitLevel"
  /\ ~lastCall.valid
  /\ lastCall.habitId = "smoking"
  /\ LevelOf(habits, "smoking") = 2


(* C22: when a selected habit (level > 0) with effects in the impact model has
   no catalog entry, the tiered calculateExponentialHealth does not fail and
   returns what it returns for the selection without that habit *)
RanUncatalogued == pc = "uncatalogued"

MissingCatalogEntrySkipped ==
  RanUncatalogued =>
    /\ "threw" \notin DOMAIN result.value
    /\ result.value =
         calculateRealisticHealth(CataloguedEntries(habits, {result.missing}))


(* C23: in every state the store reaches, by whatever sequence of setHabitLevel
   calls (accepted or rejected), setFocusOrgan, setCompareMode and toggles,
   meters is calculateMeters of the selectedHabits held in the same state *)
InStore == pc = "store"

StoreCacheCoherence == InStore => meters = calculateMeters(habits)

StoreCacheCoherenceWitness ==
  /\ InStore
  /\ Len(habits) = 2
  /\ LevelOf(habits, "smoking") = 3
  /\ LevelOf(habits, "exercise") = 0
  /\ HasKey(habits, "exercise")
  /\ reduceMotion
  /\ compareMode = "after"
  /\ lastCall.op = "handleLevelChange"


(* C24: the store's meters after any sequence of accepted setHabitLevel calls
   depend only on the final level of each habit: setting the same final levels
   with the habits first set in the opposite order gives the same meters *)
HistoryIndependence == InStore => meters = calculateMeters(Reverse(habits))


(* C25: whenever the negative dominant-factor list held in the store's meters
   has a factor of impact magnitude above 15, the profile panel's list holds a
   'critical' entry for that habit, and critical entries come before every
   high or moderate entry *)
PanelHolds(panel, priority, habit) ==
  \E i \in 1..Len(panel) :
     /\ panel[i] = PanelEntry(priority, habit)
     /\ \A j \in 1..(i - 1) : panel[j].priority = "critical"

PanelCriticalOf(negative, panel) ==
  \A k \in 1..Len(negative) :
     (k <= 5 /\ Abs(negative[k].impact) > 15 * Unit) =>
        PanelHolds(panel, "critical", negative[k].habit)

PanelCriticalRule ==
  InStore =>
    PanelCriticalOf(meters.exponentialFactors.negative,
                    getPrioritizedRecommendations(meters, habits))


(* C26: setFocusOrgan, setCompareMode and the two toggles leave selectedHabits
   and meters as they were and change only their own field (a toggle keeps the
   other accessibility flag); setHabitLevel leaves focusOrganId, compareMode
   and the accessibility flags as they were *)
Called(op) == lastCall'.op = op

StoreFrame ==
  [][/\ Called("setFocusOrgan") =>
          UNCHANGED <<habits, meters, compareMode, reduceMotion, highContrast>>
     /\ Called("setCompareMode") =>
          UNCHANGED <<habits, meters, focusOrganId, reduceMotion, highContrast>>
     /\ Called("toggleReduceMotion") =>
          /\ reduceMotion' = ~reduceMotion
          /\ UNCHANGED <<habits, meters, focusOrganId, compareMode, highContrast>>
     /\ Called("toggleHighContrast") =>
          /\ highContrast' = ~highContrast
          /\ UNCHANGED <<habits, meters, focusOrganId, compareMode, reduceMotion>>
     /\ IsLevelCall(lastCall') => UNCHANGED storeUi]_vars

\* toggleReduceMotion has acted on a store whose other fields all left their
\* initial values
StoreFrameWitness ==
  /\ InStore
  /\ lastCall.op = "toggleReduceMotion"
  /\ reduceMotion
  /\ highContrast
  /\ focusOrganId = "heart"
  /\ compareMode = "before"
  /\ LevelOf(habits, "smoking") = 1


(* C27: every level stored in selectedHabits is one of 0, 1, 2, 3; the key set
   only grows; and the level stored for a habit is the level of the most
   recent accepted setHabitLevel call for it, whatever rejected calls and other
   setters come in between *)
StoredLevelsValid == \A i \in 1..Len(habits) : habits[i].level \in Levels

Keys(h) == {h[i].id : i \in 1..Len(h)}

AcceptedCall(call) == call.op = "setHabitLevel" /\ call.valid

StoredLevelStep ==
  /\ Keys(habits) \subseteq Keys(habits')
  /\ AcceptedCall(lastCall') =>
       /\ HasKey(habits', lastCall'.habitId)
       /\ LevelOf(habits', lastCall'.habitId) = lastCall'.level
  /\ \A id \in StoreIds :
       (HasKey(habits', id) /\ ~(AcceptedCall(lastCall') /\ lastCall'.habitId = id)) =>
          (HasKey(habits, id) /\ LevelOf(habits', id) = LevelOf(habits, id))

StoredLevels ==
  /\ [](InStore => StoredLevelsValid)
  /\ [][StoredLevelStep]_vars

\* a rejected call for exercise came after the accepted calls that set it to 3
StoredLevelsWitness ==
  /\ InStore
  /\ habits = << [id |-> "smoking", level |-> 0], [id |-> "exercise", level |-> 3] >>
  /\ lastCall = Call("handleLevelChange", "exercise", FALSE, 0 - 1)


(* C28: in the meters calculateMeters builds, happiness is the mental health
   value, qualityOfLife is (health + 2 x mentalHealth) / 3, and the engine's own
   happiness metric is no part of what the engine returns to the store *)
EngineReturnFields ==
  {"overallHealth", "organHealth", "exponentialFactors", "riskAssessment",
   "prioritizedRecommendations"}

RiskAssessmentFields == {"physicalHealth", "mentalHealth", "lifeExpectancy", "diseaseRisk"}

HappinessMirrorsMentalHealth ==
  Ran("meters") =>
    /\ meters.happiness = meters.mentalHealth
    /\ meters.mentalHealth = RealisticResults(habits).mentalHealth
    /\ meters.qualityOfLife = (meters.health + 2 * meters.mentalHealth) \div 3
    /\ DOMAIN calculateRealisticHealth(habits) = EngineReturnFields
    /\ DOMAIN calculateRealisticHealth(habits).riskAssessment = RiskAssessmentFields

\* the engine's happiness metric differs from its mental health metric, and
\* the stored happiness is the latter
HappinessMirrorsMentalHealthWitness ==
  /\ Ran("meters")
  /\ LevelOf(habits, "exercise") = 2
  /\ Len(habits) = 1
  /\ RealisticResults(habits).happiness # RealisticResults(habits).mentalHealth
  /\ meters.happiness = RealisticResults(habits).mentalHealth
  /\ meters.health # meters.mentalHealth


(* C29: in the meters calculateMeters builds, each of the eight stats lies in
   [0,10], qualityOfLife and overallWellness lie in [10,100], and for the empty
   selection every stat is 5 *)
StatNames ==
  {"cardioStrain", "inflammation", "sleepQuality", "stressLoad", "recoveryCapacity",
   "cognitiveFunction", "immuneSystem", "metabolicHealth"}

DerivedMeterRanges ==
  Ran("meters") =>
    /\ DOMAIN meters.stats = StatNames
    /\ \A s \in StatNames : InRange(meters.stats[s], 0, 10)
    /\ InRange(meters.qualityOfLife, 10, 100)
    /\ InRange(meters.overallWellness, 10, 100)
    /\ habits = <<>> => \A s \in StatNames : meters.stats[s] = 5 * Unit

\* a selection whose unclamped cardioStrain is above 10 and whose unclamped
\* cognitiveFunction is below 0
DerivedMeterRangesWitness ==
  /\ Ran("meters")
  /\ LevelOf(habits, "smoking") = 3
  /\ LevelOf(habits, "drugs") = 3
  /\ meters.stats.cardioStrain = 10 * Unit
  /\ meters.stats.cognitiveFunction = 0
  /\ meters.qualityOfLife < 30 * Unit


(* C30: in the result of the tiered and of the targeted engine each habit has
   at most one entry in the positive and negative dominant-factor lists taken
   together, every listed habit is selected at a level above 0, and every
   listed impact is strictly positive *)
SingleFactorPerHabit(h, factors) ==
  \A id \in HabitIds :
     /\ Cardinality(ListedFactors(factors, id)) <= 1
     /\ \A i \in ListedFactors(factors, id) :
          LevelOf(h, id) > 0 /\ ImpactAt(factors, i) > 0

OneFactorPerHabit ==
  (Ran("realistic") \/ Ran("targeted")) =>
     SingleFactorPerHabit(habits, result.exponentialFactors)

=============================================================================
